---- MODULE Spec2Model ----
(***************************************************************************)
(* A model of the identify backend's model-generation macros (gen_model,   *)
(* gen_id), of the identities they derive, and of the User entity built on *)
(* them.                                                                   *)
(*                                                                         *)
(* Strings are modelled as the sequences of their UTF-8 bytes, a UUID as   *)
(* an integer of UuidBits bits, Option<T> as a sequence of length 0 or 1.  *)
(***************************************************************************)
EXTENDS Integers, Sequences, FiniteSets, TLC

VARIABLES
    now,      \* the clock read by Utc::now()
    idm,      \* Option: the identity model gen_id! was expanded for
    inst,     \* Option: the field values of the identity instance in hand
    uuid,     \* Option: what the last to_uuid call on inst returned
    first,    \* Option: [uuid, at, run] of the first to_uuid call on these values
    calls,    \* to_uuid calls made by the process so far
    run,      \* how many times the process has been started again
    user,     \* Option: the User that User::new returned
    row,      \* Option: the UserRow written for user
    last,     \* Option: [op, arg, ret] of the last load
    made,     \* Option: [arg, at] of the User::new call that returned user
    got,      \* Option: [self, fn, ret] of the last accessor call on a User
    schema,   \* Option: the input gen_model! is expanded for
    gpc,      \* how far the expansion of gen_model! is
    entity,   \* Option: the entity struct the expansion has emitted
    newH,     \* the expansion of @gen-new-helper: [st, name, processed, rest]
    hydH,     \* the expansion of @gen-hydrate-helper: [st, name, processed, rest]
    getS,     \* Option: the fields, with their #[get(..)], given to @gen-getters
    getH,     \* the expansion of @gen-getter: [st, getters, rest]
    table,    \* the rows of the users table
    res,      \* Option: [op, arg, at, exec, wrote, ret] of the last use of the repository
    POOL,     \* Option: the value of the OnceCell POOL
    sem,      \* the semaphore of POOL: [permit, closed]
    task,     \* the get_pool call of each task: [pc, conn, ret]
    pcalls,   \* get_pool calls made so far
    inits,    \* the pools that initialisations of POOL have created
    returned, \* the pools that get_pool calls have returned
    failed    \* an initialisation of POOL has failed

idVars == <<idm, inst, uuid, first, calls, run>>
userVars == <<user, row, last, made, got>>
genVars == <<schema, gpc, entity, newH, hydH>>
getVars == <<getS, getH>>
repoVars == <<table, res>>
poolVars == <<POOL, sem, task, pcalls, inits, returned, failed>>
vars == <<now, idVars, userVars, genVars, getVars, repoVars, poolVars>>

\* ------------------------------------------------------------------ bounds

\* Longest field value, in bytes.
MaxLen == 2
\* Width of a UUID (128 in the uuid crate).
UuidBits == 4
\* Last instant of the clock read by Utc::now().
MaxClock == 1
\* Most to_uuid calls counted in one process.
MaxCalls == 2
\* Most restarts of the process.
MaxRuns == 1
\* Most fields of an entity given to gen_model! (at most 3: they are named below).
MaxFields == 2
\* Most helper structs written after the entity (at most 4: their fields are named below).
MaxHelpers == 3
\* Most options written in one #[get(..)] (at most 5: there are five options).
MaxOptions == 2
\* Most rows of the users table.
MaxRows == 1
\* Most tasks that call get_pool.
MaxTasks == 2
\* Most get_pool calls.
MaxPoolCalls == 3

\* ------------------------------------------------------------------ values

None == <<>>
Some(x) == <<x>>

\* Bytes that field values are made of: ' ' and 'a'.
Alphabet == {32, 97}
Strs == UNION {[1..n -> Alphabet] : n \in 0..MaxLen}
Uuids == 0..(2^UuidBits - 1)
Times == 0..MaxClock

\* ------------------------------------------------------------------ uuid

\* The namespace the UUIDs are derived in: b"doc-example-uuid".
UUID_NAMESPACE ==
    <<100, 111, 99, 45, 101, 120, 97, 109, 112, 108, 101, 45, 117, 117, 105, 100>>

\* The digest of a byte string, folded byte by byte and cut to the width of a UUID.
RECURSIVE Digest(_, _)
Digest(h, bytes) ==
    IF bytes = <<>> THEN h
    ELSE Digest((h * 31 + Head(bytes)) % (2^UuidBits), Tail(bytes))

\* Uuid::new_v5(namespace, name): the digest of the namespace followed by the name.
new_v5(namespace, name) == Digest(0, namespace \o name)

\* ------------------------------------------------------------------ gen_id

\* stringify!($name).as_bytes() of the identity models in the repository.
stringify ==
    [UserId |-> <<85, 115, 101, 114, 73, 100>>,
     ModelId |-> <<77, 111, 100, 101, 108, 73, 100>>]
TypeNames == DOMAIN stringify

\* b" ID"
ID_TAG == <<32, 73, 68>>

\* String::as_bytes: the bytes of the value.
as_bytes(value) == value

\* The documented conversion function: value.as_ref().
custom_to_bytes(value) == value

\* A conversion function that borrows a part of the value: value.trim().as_bytes().
RECURSIVE trim_start(_)
trim_start(value) ==
    IF value # <<>> /\ Head(value) = 32 THEN trim_start(Tail(value)) ELSE value
RECURSIVE trim_end(_)
trim_end(value) ==
    IF value # <<>> /\ value[Len(value)] = 32
    THEN trim_end(SubSeq(value, 1, Len(value) - 1))
    ELSE value
trim_bytes(value) == trim_end(trim_start(value))

\* What a field declaration may carry in its [..]: nothing, or a conversion function.
ConvFns == {"none", "custom_to_bytes", "trim_bytes"}
FieldNames == {"email", "username"}
FieldDecl == [fname : FieldNames, conv : ConvFns]

\* The field lists of an identity model: one or more fields, no name twice.
FieldDecls ==
    {fs \in UNION {[1..n -> FieldDecl] : n \in 1..Cardinality(FieldNames)} :
        \A i, j \in DOMAIN fs : fs[i].fname = fs[j].fname => i = j}

\* The identity models gen_id! is expanded for.
IdModels == [name : TypeNames, fields : FieldDecls]

\* The values of an identity model: one string for each field.
IdValues(m) == [{m.fields[i].fname : i \in DOMAIN m.fields} -> Strs]

\* gen_id_helper!(@bytes self, $f_name $(, $conv_fn)?)
bytes(self, f) ==
    CASE f.conv = "none" -> as_bytes(self[f.fname])
      [] f.conv = "custom_to_bytes" -> custom_to_bytes(self[f.fname])
      [] f.conv = "trim_bytes" -> trim_bytes(self[f.fname])

\* The repetition $( name.extend_from_slice(@bytes ...); )+ over the declared fields.
RECURSIVE extend_fields(_, _, _)
extend_fields(name, self, fields) ==
    IF fields = <<>> THEN name
    ELSE extend_fields(name \o bytes(self, Head(fields)), self, Tail(fields))

\* The name that to_uuid hashes: the Vec it fills before it calls new_v5.
uuid_name(m, self) ==
    LET name0 == <<>>
        name1 == name0 \o stringify[m.name]
        name2 == name1 \o ID_TAG
    IN  extend_fields(name2, self, m.fields)

\* to_uuid without the b" ID" that follows the type name.
to_uuid_no_tag(m, self) ==
    new_v5(UUID_NAMESPACE, extend_fields(stringify[m.name], self, m.fields))

\* to_uuid with the instant of the call hashed in (what a v1 or v7 UUID does).
to_uuid_timed(m, self) == new_v5(UUID_NAMESPACE, uuid_name(m, self) \o <<now>>)

\* $name::to_uuid(&self)
to_uuid(m, self) == new_v5(UUID_NAMESPACE, uuid_name(m, self))

\* impl From<&$name> for Uuid
Uuid_from(m, value) == to_uuid(m, value)

\* ------------------------------------------------------------------ results and errors

Ok(v) == [ok |-> TRUE, val |-> Some(v), err |-> None]
Err(e) == [ok |-> FALSE, val |-> None, err |-> Some(e)]

\* DomainError::id_mismatch(model, message)
id_mismatch(model, message) ==
    [kind |-> "IdMismatch", model |-> model, message |-> message]

\* format!("expected {}, got {}", expected, generated)
format_mismatch(expected, generated) ==
    <<"expected ", expected, ", got ", generated>>

\* ------------------------------------------------------------------ UserId

\* gen_id! { UUID_NAMESPACE, pub struct UserId { email: String, } .. }
UserIdModel == [name |-> "UserId", fields |-> <<[fname |-> "email", conv |-> "none"]>>]

\* The helper gen_id! generates for UserId.
UserIdAttrs == [email : Strs]

\* UserId::new(attrs)
UserId_new(attrs) == [email |-> attrs.email]

\* The getter of UserId's field.
UserId_email(id) == id.email

\* UserId::load that takes an identity for the recomputed one when their low
\* bits agree.
UserId_load_low_bits(attrs, expected) ==
    LET id == [email |-> attrs.email]
        generated == to_uuid(UserIdModel, id)
    IN  IF generated % 2^(UuidBits - 1) # expected % 2^(UuidBits - 1)
        THEN Err(id_mismatch("UserId", format_mismatch(expected, generated)))
        ELSE Ok(id)

\* UserId::load(attrs, expected)
UserId_load(attrs, expected) ==
    LET id == [email |-> attrs.email]
        generated == to_uuid(UserIdModel, id)
    IN  IF generated # expected
        THEN Err(id_mismatch("UserId", format_mismatch(expected, generated)))
        ELSE Ok(id)

\* ------------------------------------------------------------------ User

\* First names: the strings of one byte.
Names == {s \in Strs : Len(s) = 1}
OptNames == {None} \cup {Some(n) : n \in Names}

\* The helpers gen_model! generates for User.
NewUserAttrs == [email : Strs, first_name : Names, last_name : OptNames]
UserAttrs ==
    [id : Uuids, email : Strs, first_name : Names, last_name : OptNames,
     created_at : Times, updated_at : Times]

\* User::new that derives the identity from the e-mail and the first name.
User_new_id_from_names(attrs, utc_now) ==
    [id |-> UserId_new([email |-> attrs.email \o attrs.first_name]),
     first_name |-> attrs.first_name,
     last_name |-> attrs.last_name,
     created_at |-> utc_now,
     updated_at |-> utc_now]

\* User::new(attrs), with what Utc::now() returns.
User_new(attrs, utc_now) ==
    [id |-> UserId_new([email |-> attrs.email]),
     first_name |-> attrs.first_name,
     last_name |-> attrs.last_name,
     created_at |-> utc_now,
     updated_at |-> utc_now]

\* User::load that also refuses a record updated before it was created.
User_load_checks_stamps(attrs) ==
    LET id == UserId_load([email |-> attrs.email], attrs.id)
    IN  IF ~id.ok THEN Err(id.err[1])
        ELSE IF attrs.updated_at < attrs.created_at
        THEN Err(id_mismatch("UserId", format_mismatch(attrs.id, attrs.id)))
        ELSE Ok([id |-> id.val[1],
                 first_name |-> attrs.first_name,
                 last_name |-> attrs.last_name,
                 created_at |-> attrs.created_at,
                 updated_at |-> attrs.updated_at])

\* User::load that takes one stored instant for both timestamps.
User_load_one_stamp(attrs) ==
    LET id == UserId_load([email |-> attrs.email], attrs.id)
    IN  IF ~id.ok THEN Err(id.err[1])
        ELSE Ok([id |-> id.val[1],
                 first_name |-> attrs.first_name,
                 last_name |-> attrs.last_name,
                 created_at |-> attrs.created_at,
                 updated_at |-> attrs.created_at])

\* User::load that builds the identity without the check.
User_load_unchecked(attrs) ==
    Ok([id |-> UserId_new([email |-> attrs.email]),
        first_name |-> attrs.first_name,
        last_name |-> attrs.last_name,
        created_at |-> attrs.created_at,
        updated_at |-> attrs.updated_at])

\* User::load(attrs)
User_load(attrs) ==
    LET id == UserId_load([email |-> attrs.email], attrs.id)
    IN  IF ~id.ok THEN Err(id.err[1])
        ELSE Ok([id |-> id.val[1],
                 first_name |-> attrs.first_name,
                 last_name |-> attrs.last_name,
                 created_at |-> attrs.created_at,
                 updated_at |-> attrs.updated_at])

\* The id getter hashing the e-mail alone, without the name of the identity type.
User_id_untagged(self) == new_v5(UUID_NAMESPACE, self.id.email)

\* The getters gen_model! generates for User.
User_id(self) == Uuid_from(UserIdModel, self.id)
User_first_name(self) == self.first_name
User_last_name(self) == self.last_name
User_created_at(self) == self.created_at
User_updated_at(self) == self.updated_at

\* to_attributes that leaves the last name out.
to_attributes_no_last_name(self) ==
    [id |-> User_id(self),
     email |-> UserId_email(self.id),
     first_name |-> self.first_name,
     last_name |-> None,
     created_at |-> self.created_at,
     updated_at |-> self.updated_at]

\* User::to_attributes(&self)
to_attributes(self) ==
    [id |-> User_id(self),
     email |-> UserId_email(self.id),
     first_name |-> self.first_name,
     last_name |-> self.last_name,
     created_at |-> self.created_at,
     updated_at |-> self.updated_at]

\* impl From<&User> for UserRow
UserRow_from(value) ==
    LET attrs == to_attributes(value)
    IN  [id |-> attrs.id,
         email |-> attrs.email,
         first_name |-> attrs.first_name,
         last_name |-> attrs.last_name,
         created_at |-> attrs.created_at,
         updated_at |-> attrs.updated_at]

\* impl TryFrom<UserRow> for User
User_try_from(value) ==
    User_load([id |-> value.id,
               email |-> value.email,
               first_name |-> value.first_name,
               last_name |-> value.last_name,
               created_at |-> value.created_at,
               updated_at |-> value.updated_at])

\* ------------------------------------------------------------------ application and storage

\* ApplicationError::Domain(e), by #[from] DomainError.
Domain(e) == [kind |-> "Domain", source |-> e]

\* ApplicationError::internal(e)
internal(e) == [kind |-> "Internal", report |-> e]

\* ApplicationError::entity_already_exists(entity, message)
entity_already_exists(name, message) ==
    [kind |-> "EntityAlreadyExists", entity |-> name, message |-> message]

\* The errors of a query: a violated unique constraint, another error of the
\* database, an error that is not one of the database (as_database_error() is
\* None), no row for fetch_one.
ExecErrors == {"UniqueViolation", "Database", "Io"}
FetchErrors == {"RowNotFound", "Database", "Io"}

\* UsersRepository::get that converts the row without the check of User::load.
users_get_trusting(fetched) ==
    IF ~fetched.ok THEN Err(internal(fetched.err[1]))
    ELSE Ok(User_load_unchecked(fetched.val[1]).val[1])

\* UsersRepository::get(id), with what fetch_one returned for the id.
users_get(fetched) ==
    IF ~fetched.ok THEN Err(internal(fetched.err[1]))
    ELSE LET loaded == User_try_from(fetched.val[1])
         IN  IF ~loaded.ok THEN Err(Domain(loaded.err[1]))
             ELSE Ok(loaded.val[1])

\* UsersRepository::insert(entity), with what execute returned for its row.
users_insert(value, exec) ==
    IF exec.ok THEN Ok("()")
    ELSE IF exec.err[1] = "UniqueViolation"
         THEN Err(entity_already_exists("User", "Email is already taken"))
         ELSE Err(internal(exec.err[1]))

\* create_user that does not look at what the insert returned.
create_user_unchecked(attrs, utc_now, exec) == Ok(User_new(attrs, utc_now))

\* create_user(deps, params), with what Utc::now() and the insert's execute return.
create_user(attrs, utc_now, exec) ==
    LET created == User_new(attrs, utc_now)
        inserted == users_insert(created, exec)
    IN  IF ~inserted.ok THEN Err(inserted.err[1])
        ELSE Ok(created)

\* The inputs of create_user: users with an e-mail of at most one byte, one
\* first name and no last name.
CreateUserParams ==
    {a \in NewUserAttrs : Len(a.email) <= 1 /\ a.first_name = <<97>> /\ a.last_name = None}

\* ------------------------------------------------------------------ connection pool

\* The tasks of the process.
Tasks == 1..MaxTasks

\* Connection strings: the one main passes, another database, and one that
\* connect_lazy cannot parse.
ConnStrings == {"sqlite://data.db", "sqlite://other.db", "data.db?mode=x"}

\* SqlitePoolOptions::connect_lazy(connection_string): a pool, the n-th
\* created, for these options, or the error of parsing the string.
connect_lazy(conn, n) ==
    IF conn \in {"sqlite://data.db", "sqlite://other.db"}
    THEN Ok([conn |-> conn, n |-> n])
    ELSE Err("Configuration")

\* InfrastructureError::internal_with_message(e, message)
internal_with_message(e, message) ==
    [kind |-> "Internal", report |-> e, message |-> message]

\* A task that is not in get_pool.
NoCall == [pc |-> "idle", conn |-> "", ret |-> None]

\* A semaphore that hands its permit out whenever it is not closed.
may_acquire_unguarded(s) == ~s.closed

\* Semaphore::acquire can complete: the semaphore is open and its one permit free.
may_acquire(s) == ~s.closed /\ s.permit = 0

\* ------------------------------------------------------------------ gen_model

\* The fields of the documented model, and their types.
ModelFieldNames == <<"id", "first_name", "last_name">>
ModelFieldTypes == <<"u64", "String", "String">>

\* #[new(..)] and #[hydrate(..)] as the main rule takes them: no attribute, or
\* one with an optional skip followed by an optional type(<type>).
Anns ==
    {None} \cup ({Some([skip |-> sk, type |-> ty]) :
                     sk \in BOOLEAN, ty \in {None, Some("u32")}}
                    \ {Some([skip |-> FALSE, type |-> None])})

\* The field lists of an entity: field i has the i-th name and type.
ModelFields ==
    UNION {{fs \in [1..n -> [name : {ModelFieldNames[i] : i \in 1..n},
                             type : {ModelFieldTypes[i] : i \in 1..n},
                             new : Anns, hydrate : Anns]] :
               \A i \in 1..n : fs[i].name = ModelFieldNames[i]
                                /\ fs[i].type = ModelFieldTypes[i]} :
           n \in 1..MaxFields}

\* The names of the fields that the helper structs add, none of them a field
\* of the entity.
HelperFieldNames == <<"full_name", "email", "nickname", "note">>

\* The names of the helper structs, in the order the documentation writes them.
HelperNames == <<"NewModelAttrs", "ModelAttrs", "ModelDraft", "ModelView">>

\* The helper structs: they are named in the documented order, or with the
\* first two names exchanged; either none has a field of its own or the k-th
\* has the k-th of the field names above.
ModelHelpers ==
    UNION {{[k \in 1..n |->
               [name |-> IF rev /\ k <= 2 THEN HelperNames[3 - k] ELSE HelperNames[k],
                fields |-> IF own THEN <<[name |-> HelperFieldNames[k], type |-> "String"]>>
                           ELSE <<>>]] : own \in BOOLEAN, rev \in BOOLEAN} :
           n \in 0..MaxHelpers}

\* What gen_model! is expanded for.
Schemas == [fields : ModelFields, helpers : ModelHelpers]

\* A helper expansion that was not started, and one that starts.
Off == [st |-> "off", name |-> "", processed |-> <<>>, rest |-> <<>>]
Started(helper, fields) ==
    [st |-> "munch", name |-> helper.name, processed |-> helper.fields, rest |-> fields]

\* The struct the main rule emits: every field with its own type.
model_struct(fields) == [i \in DOMAIN fields |-> [name |-> fields[i].name, type |-> fields[i].type]]

\* The field tokens a helper expansion is given: name, type and one attribute.
helper_field(f, ann) == [name |-> f.name, type |-> f.type, ann |-> ann]

\* The fields passed to @gen-new-helper with the #[hydrate(..)] attribute.
new_fields_with_hydrate(fields) ==
    [i \in DOMAIN fields |-> helper_field(fields[i], fields[i].hydrate)]

\* The fields as @gen-helpers passes them to @gen-new-helper: with #[new(..)].
new_fields(fields) == [i \in DOMAIN fields |-> helper_field(fields[i], fields[i].new)]

\* The fields passed to @gen-hydrate-helper with the #[new(..)] attribute.
hydrate_fields_with_new(fields) ==
    [i \in DOMAIN fields |-> helper_field(fields[i], fields[i].new)]

\* The fields as @gen-helpers passes them to @gen-hydrate-helper: with #[hydrate(..)].
hydrate_fields(fields) ==
    [i \in DOMAIN fields |-> helper_field(fields[i], fields[i].hydrate)]

\* The @gen-helpers rule that matches: 1 (two helper structs, then the fields),
\* 2 (one helper struct, then the fields), 3 (the fallback, any tokens).
gen_helpers_rule(helpers) ==
    CASE Len(helpers) = 2 -> 1
      [] Len(helpers) = 1 -> 2
      [] OTHER -> 3

\* One step of a helper expansion, with the rules in the order they are tried:
\* an ordinary field, a skipped field, a field with a custom type, the end
\* of the fields; no rule matching is a compile error.
munch(h) ==
    IF h.rest = <<>> THEN [h EXCEPT !.st = "done"]
    ELSE LET f == Head(h.rest)
             rest == Tail(h.rest)
         IN  CASE f.ann = None ->
                    [h EXCEPT !.processed = @ \o <<[name |-> f.name, type |-> f.type]>>,
                              !.rest = rest]
               [] f.ann = Some([skip |-> TRUE, type |-> None]) ->
                    [h EXCEPT !.rest = rest]
               [] f.ann # None /\ ~f.ann[1].skip /\ f.ann[1].type # None ->
                    [h EXCEPT !.processed = @ \o <<[name |-> f.name, type |-> f.ann[1].type[1]]>>,
                              !.rest = rest]
               [] OTHER -> [h EXCEPT !.st = "error"]

\* @gen-new-helper whose skip rule keeps the field.
gen_new_helper_keeps_skipped(h) ==
    IF h.rest # <<>> /\ Head(h.rest).ann = Some([skip |-> TRUE, type |-> None])
    THEN [h EXCEPT !.processed = @ \o <<[name |-> Head(h.rest).name, type |-> Head(h.rest).type]>>,
                   !.rest = Tail(h.rest)]
    ELSE munch(h)

\* One step of @gen-new-helper.
gen_new_helper(h) == munch(h)

\* @gen-hydrate-helper whose type rule emits the type of the entity's field.
gen_hydrate_helper_own_type(h) ==
    IF h.rest # <<>> /\ Head(h.rest).ann # None /\ Head(h.rest).ann[1].type # None
                    /\ ~Head(h.rest).ann[1].skip
    THEN [h EXCEPT !.processed = @ \o <<[name |-> Head(h.rest).name, type |-> Head(h.rest).type]>>,
                   !.rest = Tail(h.rest)]
    ELSE munch(h)

\* One step of @gen-hydrate-helper.
gen_hydrate_helper(h) == munch(h)

\* ------------------------------------------------------------------ gen_model: getters

\* #[get(..)] with no option in it.
NoOpts == [skip |-> "no", into |-> None, ref_into |-> None, as_ref |-> None, copy |-> "no"]

\* What the main rule takes between the parentheses of #[get(..)]: in this
\* order an optional skip or skip(<marker>), into(<type>), ref_into(<type>),
\* as_ref(<type>), and copy or copy(<marker>).
GetForms ==
    [skip : {"no", "bare", "marker"}, into : {None, Some("u128")},
     ref_into : {None, Some("Uuid")}, as_ref : {None, Some("&str")},
     copy : {"no", "bare", "marker"}]

\* How many options an attribute holds.
Options(a) ==
    (IF a.skip # "no" THEN 1 ELSE 0) + (IF a.into # None THEN 1 ELSE 0)
    + (IF a.ref_into # None THEN 1 ELSE 0) + (IF a.as_ref # None THEN 1 ELSE 0)
    + (IF a.copy # "no" THEN 1 ELSE 0)

\* The getter attribute of a field: none, or one the main rule takes.
GetAnns == {None} \cup {Some(a) : a \in {b \in GetForms : Options(b) <= MaxOptions}}

\* The field lists of an entity whose fields carry getter attributes.
GetFields ==
    UNION {{fs \in [1..n -> [name : {ModelFieldNames[i] : i \in 1..n},
                             type : {ModelFieldTypes[i] : i \in 1..n},
                             get : GetAnns]] :
               \A i \in 1..n : fs[i].name = ModelFieldNames[i]
                                /\ fs[i].type = ModelFieldTypes[i]} :
           n \in 1..MaxFields}

\* The getter expansion before @gen-getters is called.
NoGetters == [st |-> "off", getters |-> <<>>, rest |-> <<>>]

\* A generated getter: its name, the tokens of its return type, its body.
Getter(name, ret, body) == [name |-> name, ret |-> ret, body |-> body]

\* One step of @gen-getter, with the rules in the order they are tried: an
\* ordinary getter, #[get(skip)], #[get(into(<type>))], #[get(ref_into(<type>))],
\* #[get(copy)], #[get(as_ref(<type>))], the end of the fields; no rule
\* matching is a compile error.
getter_munch(h) ==
    IF h.rest = <<>> THEN [h EXCEPT !.st = "done"]
    ELSE LET f == Head(h.rest)
             rest == Tail(h.rest)
             emit(g) == [h EXCEPT !.getters = @ \o <<g>>, !.rest = rest]
         IN  CASE f.get = None ->
                    emit(Getter(f.name, <<"&", f.type>>, "&self.f"))
               [] f.get = Some([NoOpts EXCEPT !.skip = "bare"]) ->
                    [h EXCEPT !.rest = rest]
               [] f.get # None /\ f.get[1].into # None
                  /\ f.get[1] = [NoOpts EXCEPT !.into = f.get[1].into] ->
                    emit(Getter(f.name, <<f.get[1].into[1]>>, "self.f.into()"))
               [] f.get # None /\ f.get[1].ref_into # None
                  /\ f.get[1] = [NoOpts EXCEPT !.ref_into = f.get[1].ref_into] ->
                    emit(Getter(f.name, <<f.get[1].ref_into[1]>>, "(&self.f).into()"))
               [] f.get = Some([NoOpts EXCEPT !.copy = "bare"]) ->
                    emit(Getter(f.name, <<f.type>>, "self.f"))
               [] f.get # None /\ f.get[1].as_ref # None
                  /\ f.get[1] = [NoOpts EXCEPT !.as_ref = f.get[1].as_ref] ->
                    emit(Getter(f.name, <<f.get[1].as_ref[1]>>, "self.f.as_ref()"))
               [] OTHER -> [h EXCEPT !.st = "error"]

\* @gen-getter whose #[get(copy)] rule has the body of the as_ref rule.
gen_getter_copy_as_ref(h) ==
    IF h.rest # <<>> /\ Head(h.rest).get = Some([NoOpts EXCEPT !.copy = "bare"])
    THEN [h EXCEPT !.getters = @ \o <<Getter(Head(h.rest).name, <<Head(h.rest).type>>,
                                              "self.f.as_ref()")>>,
                   !.rest = Tail(h.rest)]
    ELSE getter_munch(h)

\* One step of @gen-getter.
gen_getter(h) == getter_munch(h)

\* ------------------------------------------------------------------ state

Init ==
    /\ now = 0
    /\ idm = None
    /\ inst = None
    /\ uuid = None
    /\ first = None
    /\ calls = 0
    /\ run = 0
    /\ user = None
    /\ row = None
    /\ last = None
    /\ made = None
    /\ got = None
    /\ schema = None
    /\ gpc = "input"
    /\ entity = None
    /\ newH = Off
    /\ hydH = Off
    /\ getS = None
    /\ getH = NoGetters
    /\ table = {}
    /\ res = None
    /\ POOL = None
    /\ sem = [permit |-> 0, closed |-> FALSE]
    /\ task = [t \in Tasks |-> NoCall]
    /\ pcalls = 0
    /\ inits = {}
    /\ returned = {}
    /\ failed = FALSE

\* Time passes.
Tick ==
    /\ now < MaxClock
    /\ now' = now + 1
    /\ UNCHANGED <<idVars, userVars, genVars, getVars, repoVars, poolVars, poolVars>>

\* ------------------------------------------------------------------ identity models

\* gen_id! { UUID_NAMESPACE, struct $name { fields } } is expanded for a model.
GenId(m) ==
    /\ idm = None
    /\ idm' = Some(m)
    /\ UNCHANGED <<now, inst, uuid, first, calls, run, userVars, genVars, getVars, repoVars, poolVars, poolVars>>

\* An instance is built from attributes: $name { field: attrs.field, .. }.
IdNew(attrs) ==
    /\ idm # None
    /\ inst = None
    /\ inst' = Some(attrs)
    /\ UNCHANGED <<now, idm, uuid, first, calls, run, userVars, genVars, getVars, repoVars, poolVars, poolVars>>

\* What a derivation leaves behind: the result, the first result for these
\* values, one more call.
Derived(u) ==
    /\ uuid' = Some(u)
    /\ first' = IF first = None THEN Some([uuid |-> u, at |-> now, run |-> run]) ELSE first
    /\ calls' = calls + 1
    /\ UNCHANGED <<now, idm, inst, run, userVars, genVars, getVars, repoVars, poolVars, poolVars>>

\* id.to_uuid()
IdToUuid ==
    /\ inst # None
    /\ calls < MaxCalls
    /\ Derived(to_uuid(idm[1], inst[1]))

\* Uuid::from(&id)
IdIntoUuid ==
    /\ inst # None
    /\ calls < MaxCalls
    /\ Derived(Uuid_from(idm[1], inst[1]))

\* The process ends and a new one, of the same build, builds the instance again
\* from the same attributes; the clock goes on.
Restart ==
    /\ calls > 0
    /\ run < MaxRuns
    /\ uuid' = None
    /\ calls' = 0
    /\ run' = run + 1
    /\ UNCHANGED <<now, idm, inst, first, userVars, genVars, getVars, repoVars, poolVars, poolVars>>

NextId ==
    \/ idm = None /\ \E m \in IdModels : GenId(m)
    \/ idm # None /\ inst = None /\ \E attrs \in IdValues(idm[1]) : IdNew(attrs)
    \/ IdToUuid
    \/ IdIntoUuid
    \/ Restart
    \/ Tick

SpecId == Init /\ [][NextId]_vars

\* ------------------------------------------------------------------ users

\* User::new(attrs): the process creates its user.
UserNew(attrs) ==
    /\ user = None
    /\ last = None
    /\ user' = Some(User_new(attrs, now))
    /\ made' = Some([arg |-> attrs, at |-> now])
    /\ UNCHANGED <<now, idVars, genVars, getVars, repoVars, poolVars, row, last, got>>

\* UserRow::from(&user): the row that is written for the user.
RowFromUser ==
    /\ user # None
    /\ row = None
    /\ row' = Some(UserRow_from(user[1]))
    /\ UNCHANGED <<now, idVars, genVars, getVars, repoVars, poolVars, user, last, made, got>>

\* User::try_from(row): the row is read back.
UserFromRow ==
    /\ row # None
    /\ last = None
    /\ last' = Some([op |-> "User::try_from", arg |-> row[1], ret |-> User_try_from(row[1])])
    /\ UNCHANGED <<now, idVars, genVars, getVars, repoVars, poolVars, user, row, made, got>>

\* User::load(attrs) on attributes that come from outside the process.
UserLoad(attrs) ==
    /\ user = None
    /\ last = None
    /\ last' = Some([op |-> "User::load", arg |-> attrs, ret |-> User_load(attrs)])
    /\ UNCHANGED <<now, idVars, genVars, getVars, repoVars, poolVars, user, row, made, got>>

\* UserId::load(attrs, expected) on attributes that come from outside the process.
UserIdLoad(attrs, expected) ==
    /\ user = None
    /\ last = None
    /\ last' = Some([op |-> "UserId::load",
                     arg |-> [email |-> attrs.email, id |-> expected],
                     ret |-> UserId_load(attrs, expected)])
    /\ UNCHANGED <<now, idVars, genVars, getVars, repoVars, poolVars, user, row, made, got>>

\* The Users the process holds: the one User::new returned, the one a load returned.
LiveUsers ==
    {user[i] : i \in DOMAIN user}
    \cup (IF last # None /\ last[1].op # "UserId::load" /\ last[1].ret.ok
          THEN {last[1].ret.val[1]} ELSE {})

\* What an accessor of User, or to_attributes, returns.
User_call(self, fn) ==
    CASE fn = "id" -> User_id(self)
      [] fn = "first_name" -> User_first_name(self)
      [] fn = "last_name" -> User_last_name(self)
      [] fn = "created_at" -> User_created_at(self)
      [] fn = "updated_at" -> User_updated_at(self)
      [] fn = "to_attributes" -> to_attributes(self)
UserFns == {"id", "first_name", "last_name", "created_at", "updated_at", "to_attributes"}

\* An accessor, or to_attributes, is called on a User the process holds; all
\* of them take &self.
UserAccessor(self, fn) ==
    /\ self \in LiveUsers
    /\ got' = Some([self |-> self, fn |-> fn, ret |-> User_call(self, fn)])
    /\ UNCHANGED <<now, idVars, genVars, getVars, repoVars, poolVars, user, row, last, made>>

NextUser ==
    \/ user = None /\ last = None /\ \E attrs \in NewUserAttrs : UserNew(attrs)
    \/ RowFromUser
    \/ UserFromRow
    \/ user = None /\ last = None /\ \E attrs \in UserAttrs : UserLoad(attrs)
    \/ user = None /\ last = None
          /\ \E attrs \in UserIdAttrs, expected \in Uuids : UserIdLoad(attrs, expected)
    \/ \E self \in LiveUsers, fn \in UserFns : UserAccessor(self, fn)
    \/ Tick

SpecUser == Init /\ [][NextUser]_vars

\* ------------------------------------------------------------------ repository

\* The process has read its user.
HasRead == res # None /\ res[1].op = "get"

\* The row would violate a unique constraint of the users table.
Taken(r) == \E t \in table : t.id = r.id \/ t.email = r.email

\* create_user(deps, params): the user is built and inserted; the statement
\* writes the row, or fails on a unique constraint, or fails otherwise.
CreateUser(attrs, exec) ==
    /\ ~HasRead
    /\ LET row0 == UserRow_from(User_new(attrs, now))
       IN  /\ exec.ok => (~Taken(row0) /\ Cardinality(table) < MaxRows)
           /\ (~exec.ok /\ exec.err[1] = "UniqueViolation") => Taken(row0)
           /\ table' = IF exec.ok THEN table \cup {row0} ELSE table
    /\ res' = Some([op |-> "create_user", arg |-> attrs, at |-> now, exec |-> exec,
                     wrote |-> IF exec.ok THEN Some(UserRow_from(User_new(attrs, now))) ELSE None,
                     ret |-> create_user(attrs, now, exec)])
    /\ UNCHANGED <<now, idVars, userVars, genVars, getVars, poolVars>>

\* A row of the table is changed by another writer than the repository: its
\* id or its e-mail, within the unique constraints; one row is changed at most.
RowChanged(r, r2) ==
    /\ ~HasRead
    /\ r \in table
    /\ \A t \in table : t.id = to_uuid(UserIdModel, [email |-> t.email])
    /\ r2 # r
    /\ \A t \in table \ {r} : t.id # r2.id /\ t.email # r2.email
    /\ table' = (table \ {r}) \cup {r2}
    /\ UNCHANGED <<now, idVars, userVars, genVars, getVars, poolVars, res>>

\* What fetch_one returns for an id when the database answers.
fetch_one(id) ==
    IF \E t \in table : t.id = id
    THEN Ok(CHOOSE t \in table : t.id = id)
    ELSE Err("RowNotFound")

\* UsersRepository::get(id): the query is answered, or fails.
RepoGet(id, fetched) ==
    /\ ~HasRead
    /\ fetched = fetch_one(id) \/ (~fetched.ok /\ fetched.err[1] # "RowNotFound")
    /\ res' = Some([op |-> "get", arg |-> id, at |-> now, exec |-> fetched,
                     wrote |-> None,
                     ret |-> users_get(fetched)])
    /\ UNCHANGED <<now, idVars, userVars, genVars, getVars, poolVars, table>>

\* The use of the repository by a process: users are created, rows are
\* changed by others, and a user is read.
NextRepo ==
    \/ ~HasRead
          /\ \E attrs \in CreateUserParams,
                exec \in {Ok("done")} \cup {Err(e) : e \in ExecErrors} :
                CreateUser(attrs, exec)
    \/ ~HasRead
          /\ \E r \in table :
                \/ \E id \in Uuids : RowChanged(r, [r EXCEPT !.id = id])
                \/ \E a \in CreateUserParams : RowChanged(r, [r EXCEPT !.email = a.email])
    \/ ~HasRead
          /\ \E id \in Uuids :
                \E fetched \in {fetch_one(id)}
                                \cup {Err(e) : e \in FetchErrors \ {"RowNotFound"}} :
                   RepoGet(id, fetched)

SpecRepo == Init /\ [][NextRepo]_vars

\* ------------------------------------------------------------------ get_pool

\* A task calls get_pool(connection_string).
PoolCall(t, conn) ==
    /\ task[t].pc \in {"idle", "done"}
    /\ pcalls < MaxPoolCalls
    /\ pcalls' = pcalls + 1
    /\ task' = [task EXCEPT ![t] = [pc |-> "start", conn |-> conn, ret |-> None]]
    /\ UNCHANGED <<now, idVars, userVars, genVars, getVars, repoVars,
                   POOL, sem, inits, returned, failed>>

\* get_or_try_init: an initialised cell gives its value; otherwise the call
\* goes on to acquire the permit.
PoolCheck(t) ==
    /\ task[t].pc = "start"
    /\ IF POOL # None
       THEN /\ task' = [task EXCEPT ![t].pc = "done", ![t].ret = Some(Ok(POOL[1]))]
            /\ returned' = returned \cup {POOL[1]}
       ELSE /\ task' = [task EXCEPT ![t].pc = "acquire"]
            /\ returned' = returned
    /\ UNCHANGED <<now, idVars, userVars, genVars, getVars, repoVars,
                   POOL, sem, pcalls, inits, failed>>

\* semaphore.acquire().await returns: with the permit, and the call runs its
\* initialiser, or with the error of a closed semaphore, and the call gives
\* the value of the cell.
PoolAcquire(t) ==
    /\ task[t].pc = "acquire"
    /\ \/ /\ may_acquire(sem)
          /\ sem' = [sem EXCEPT !.permit = t]
          /\ task' = [task EXCEPT ![t].pc = "init"]
          /\ returned' = returned
       \/ /\ sem.closed
          /\ sem' = sem
          /\ task' = [task EXCEPT ![t].pc = "done", ![t].ret = Some(Ok(POOL[1]))]
          /\ returned' = returned \cup {POOL[1]}
    /\ UNCHANGED <<now, idVars, userVars, genVars, getVars, repoVars,
                   POOL, pcalls, inits, failed>>

\* The initialiser of the call that holds the permit ends: its pool is set as
\* the value of the cell and the semaphore closed, or its error is returned,
\* mapped by map_err, and the permit released.
PoolInit(t) ==
    /\ task[t].pc = "init"
    /\ LET value == connect_lazy(task[t].conn, pcalls)
       IN  IF value.ok
           THEN /\ POOL' = Some(value.val[1])
                /\ sem' = [permit |-> 0, closed |-> TRUE]
                /\ task' = [task EXCEPT ![t].pc = "done", ![t].ret = Some(Ok(value.val[1]))]
                /\ inits' = inits \cup {value.val[1]}
                /\ returned' = returned \cup {value.val[1]}
                /\ failed' = failed
           ELSE /\ POOL' = POOL
                /\ sem' = [sem EXCEPT !.permit = 0]
                /\ task' = [task EXCEPT ![t].pc = "done",
                                         ![t].ret = Some(Err(internal_with_message(
                                                        value.err[1],
                                                        "Failed to initialize a DB pool")))]
                /\ inits' = inits
                /\ returned' = returned
                /\ failed' = TRUE
    /\ UNCHANGED <<now, idVars, userVars, genVars, getVars, repoVars, pcalls>>

\* The future of a call is dropped before it completes; a permit it holds is
\* released.
PoolDrop(t) ==
    /\ task[t].pc \in {"start", "acquire", "init"}
    /\ sem' = IF task[t].pc = "init" /\ sem.permit = t THEN [sem EXCEPT !.permit = 0] ELSE sem
    /\ task' = [task EXCEPT ![t] = NoCall]
    /\ UNCHANGED <<now, idVars, userVars, genVars, getVars, repoVars,
                   POOL, pcalls, inits, returned, failed>>

NextPool ==
    \/ \E t \in Tasks, conn \in ConnStrings : PoolCall(t, conn)
    \/ \E t \in Tasks : PoolCheck(t)
    \/ \E t \in Tasks : PoolAcquire(t)
    \/ \E t \in Tasks : PoolInit(t)
    \/ \E t \in Tasks : PoolDrop(t)

SpecPool == Init /\ [][NextPool]_vars

\* ------------------------------------------------------------------ expansion of gen_model!

\* The main rule of gen_model_helper! matches the input and emits the entity
\* struct and the call of @gen-helpers.
GenModel(s) ==
    /\ gpc = "input"
    /\ schema' = Some(s)
    /\ entity' = Some(model_struct(s.fields))
    /\ gpc' = "gen-helpers"
    /\ UNCHANGED <<now, idVars, userVars, getVars, repoVars, poolVars, newH, hydH>>

\* @gen-helpers: the first rule that matches starts the helper expansions.
GenHelpers ==
    /\ gpc = "gen-helpers"
    /\ LET s == schema[1]
           rule == gen_helpers_rule(s.helpers)
       IN  /\ newH' = IF rule \in {1, 2}
                       THEN Started(s.helpers[1], new_fields(s.fields))
                       ELSE Off
           /\ hydH' = IF rule = 1
                       THEN Started(s.helpers[2], hydrate_fields(s.fields))
                       ELSE Off
    /\ gpc' = "helpers"
    /\ UNCHANGED <<now, idVars, userVars, getVars, repoVars, poolVars, schema, entity>>

\* @gen-new-helper takes the next field, or emits the struct.
GenNewHelper ==
    /\ gpc = "helpers"
    /\ newH.st = "munch"
    /\ newH' = gen_new_helper(newH)
    /\ UNCHANGED <<now, idVars, userVars, getVars, repoVars, poolVars, schema, gpc, entity, hydH>>

\* @gen-hydrate-helper takes the next field, or emits the struct.
GenHydrateHelper ==
    /\ gpc = "helpers"
    /\ newH.st # "munch"
    /\ hydH.st = "munch"
    /\ hydH' = gen_hydrate_helper(hydH)
    /\ UNCHANGED <<now, idVars, userVars, getVars, repoVars, poolVars, schema, gpc, entity, newH>>

\* The compiler is done with the expansion: with an error if a helper
\* expansion met tokens no rule takes, and with the items otherwise.
GenEnd ==
    /\ gpc = "helpers"
    /\ newH.st # "munch"
    /\ hydH.st # "munch"
    /\ gpc' = IF "error" \in {newH.st, hydH.st} THEN "error" ELSE "done"
    /\ UNCHANGED <<now, idVars, userVars, getVars, repoVars, poolVars, schema, entity, newH, hydH>>

NextGen ==
    \/ gpc = "input" /\ \E s \in Schemas : GenModel(s)
    \/ GenHelpers
    \/ GenNewHelper
    \/ GenHydrateHelper
    \/ GenEnd

SpecGen == Init /\ [][NextGen]_vars

\* ------------------------------------------------------------------ expansion of the getters

\* The main rule of gen_model_helper! matches an entity with no helper struct:
\* it emits the entity struct and the calls of @gen-getters, with the fields
\* and their #[get(..)], and of @gen-helpers, which emits nothing.
GetModel(fs) ==
    /\ getS = None
    /\ gpc = "input"
    /\ getS' = Some(fs)
    /\ entity' = Some(model_struct(fs))
    /\ UNCHANGED <<now, idVars, userVars, repoVars, poolVars, schema, gpc, newH, hydH, getH>>

\* @gen-getters opens the impl block and calls @gen-getter with the fields.
GenGetters ==
    /\ getS # None
    /\ getH.st = "off"
    /\ getH' = [st |-> "munch", getters |-> <<>>, rest |-> getS[1]]
    /\ UNCHANGED <<now, idVars, userVars, genVars, repoVars, poolVars, getS>>

\* @gen-getter takes the next field, or ends.
GenGetter ==
    /\ getH.st = "munch"
    /\ getH' = gen_getter(getH)
    /\ UNCHANGED <<now, idVars, userVars, genVars, repoVars, poolVars, getS>>

NextGet ==
    \/ getS = None /\ \E fs \in GetFields : GetModel(fs)
    \/ GenGetters
    \/ GenGetter

SpecGet == Init /\ [][NextGet]_vars

\* ------------------------------------------------------------------ claims on identities

\* The bytes of the i-th declared field of model m in instance self.
FieldBytes(m, self, i) ==
    LET v == self[m.fields[i].fname]
    IN  IF m.fields[i].conv = "trim_bytes" THEN trim_bytes(v) ELSE v

\* Two names that differ and that the digest maps to one value.
Collide(n1, n2) ==
    n1 # n2 /\ new_v5(UUID_NAMESPACE, n1) = new_v5(UUID_NAMESPACE, n2)

\* C1: what to_uuid returns is the v5 hash, in the namespace constant, of the
\* type name, then " ID", then the bytes of each declared field in declaration
\* order (from the declared conversion function, or from as_bytes), and of
\* nothing else.
C1_HashedName ==
    uuid # None =>
        LET m == idm[1]
            self == inst[1]
            one == stringify[m.name] \o <<32, 73, 68>> \o FieldBytes(m, self, 1)
            all == IF Len(m.fields) = 1 THEN one ELSE one \o FieldBytes(m, self, 2)
        IN  uuid[1] = new_v5(UUID_NAMESPACE, all)

\* C1 witness: a derivation from a model of two fields, the first of which
\* declares a conversion function that changes the bytes of its value.
C1_Witness ==
    /\ uuid # None
    /\ Len(idm[1].fields) = 2
    /\ idm[1].fields[1].conv = "trim_bytes"
    /\ idm[1].fields[2].conv = "none"
    /\ FieldBytes(idm[1], inst[1], 1) # inst[1][idm[1].fields[1].fname]
    /\ FieldBytes(idm[1], inst[1], 1) # FieldBytes(idm[1], inst[1], 2)

\* C5: (the digest taken not to collide) another instance of a model with the
\* same fields gets the identity of the instance in hand only if it has the same
\* type name and the same value in every field.
C5_IdentityUnique ==
    (uuid # None /\ \A i \in DOMAIN idm[1].fields : idm[1].fields[i].conv # "trim_bytes") =>
        \A n2 \in TypeNames : \A v2 \in IdValues(idm[1]) :
            LET m2 == [idm[1] EXCEPT !.name = n2]
            IN  (/\ to_uuid(m2, v2) = uuid[1]
                 /\ ~Collide(uuid_name(m2, v2), uuid_name(idm[1], inst[1])))
                    => (n2 = idm[1].name /\ v2 = inst[1])

\* The model with its two fields declared in the other order.
Swapped(m) == [m EXCEPT !.fields = <<m.fields[2], m.fields[1]>>]

\* C6: (the digest taken not to collide) for a model of two fields whose values
\* give different bytes, the model with the two fields declared in the other
\* order derives another identity from the same values.
C6_OrderSensitive ==
    (uuid # None /\ Len(idm[1].fields) = 2) =>
        LET m == idm[1]
            self == inst[1]
        IN  (/\ FieldBytes(m, self, 1) # FieldBytes(m, self, 2)
             /\ ~Collide(uuid_name(Swapped(m), self), uuid_name(m, self)))
                => to_uuid(Swapped(m), self) # uuid[1]

Recomputed(arg) == to_uuid(UserIdModel, [email |-> arg.email])

\* C2: UserId::load returns the identity exactly when the expected value is the
\* recomputed one and an IdMismatch with no identity otherwise; User::load
\* returns a User with every field from the attributes, or the error and no User.
C2_LoadAllOrNothing ==
    last # None =>
        LET op == last[1].op
            arg == last[1].arg
            ret == last[1].ret
        IN  /\ ret.ok <=> (arg.id = Recomputed(arg))
            /\ ret.ok => (ret.val # None /\ ret.err = None)
            /\ ~ret.ok => (ret.val = None /\ ret.err # None /\ ret.err[1].kind = "IdMismatch")
            /\ (ret.ok /\ op = "UserId::load") => ret.val[1] = [email |-> arg.email]
            /\ (ret.ok /\ op # "UserId::load") =>
                    ret.val[1] = [id |-> [email |-> arg.email],
                                  first_name |-> arg.first_name,
                                  last_name |-> arg.last_name,
                                  created_at |-> arg.created_at,
                                  updated_at |-> arg.updated_at]

\* C2 witness: User::load has been refused on attributes that come from outside.
C2_Witness ==
    /\ last # None
    /\ last[1].op = "User::load"
    /\ ~last[1].ret.ok
    /\ last[1].arg.last_name # None

\* The value with bit i flipped.
FlipBit(v, i) == IF (v \div 2^i) % 2 = 1 THEN v - 2^i ELSE v + 2^i

\* C3: a load whose expected identity is not the recomputed one fails with an
\* IdMismatch that names the identity model and carries the expected and the
\* recomputed value.
C3_TamperDetected ==
    (last # None /\ last[1].arg.id # Recomputed(last[1].arg)) =>
        /\ ~last[1].ret.ok
        /\ last[1].ret.err # None
        /\ last[1].ret.err[1].kind = "IdMismatch"
        /\ last[1].ret.err[1].model = UserIdModel.name
        /\ last[1].ret.err[1].message[2] = last[1].arg.id
        /\ last[1].ret.err[1].message[4] = Recomputed(last[1].arg)

\* C3 witness: a refused load whose expected identity is the recomputed one
\* with its highest bit flipped.
C3_Witness ==
    /\ last # None
    /\ last[1].op = "User::load"
    /\ last[1].arg.id = FlipBit(Recomputed(last[1].arg), UuidBits - 1)
    /\ ~last[1].ret.ok

\* C4: the row written for a User that User::new returned holds the identity
\* of that User, and reading it back succeeds with a User that answers every
\* accessor as the first one does.
C4_FreshPathValid ==
    /\ (user # None /\ row # None) => row[1].id = User_id(user[1])
    /\ (user # None /\ last # None) =>
            /\ last[1].op = "User::try_from"
            /\ last[1].arg = to_attributes(user[1])
            /\ last[1].ret.ok
            /\ LET loaded == last[1].ret.val[1]
                IN  /\ User_id(loaded) = User_id(user[1])
                    /\ User_first_name(loaded) = User_first_name(user[1])
                    /\ User_last_name(loaded) = User_last_name(user[1])
                    /\ User_created_at(loaded) = User_created_at(user[1])
                    /\ User_updated_at(loaded) = User_updated_at(user[1])

\* C4 witness: a User with a last name, created after the first instant, read back.
C4_Witness ==
    /\ user # None
    /\ user[1].last_name # None
    /\ user[1].created_at > 0
    /\ last # None
    /\ last[1].ret.ok

\* C15: a hydration record on which User::load succeeds comes back unchanged,
\* in every field, from to_attributes of the loaded User.
C15_RoundTrip ==
    (last # None /\ last[1].op # "UserId::load" /\ last[1].ret.ok) =>
        LET back == to_attributes(last[1].ret.val[1])
            arg == last[1].arg
        IN  /\ back.id = arg.id
            /\ back.email = arg.email
            /\ back.first_name = arg.first_name
            /\ back.last_name = arg.last_name
            /\ back.created_at = arg.created_at
            /\ back.updated_at = arg.updated_at

\* C15 witness: User::load has succeeded on a record from outside that has a
\* last name and was updated after it was created.
C15_Witness ==
    /\ last # None
    /\ last[1].op = "User::load"
    /\ last[1].ret.ok
    /\ last[1].arg.last_name # None
    /\ last[1].arg.created_at < last[1].arg.updated_at

\* The identity of the user with an e-mail: the v5 hash of "UserId", " ID" and
\* the bytes of the e-mail.
IdentityOf(email) ==
    new_v5(UUID_NAMESPACE, <<85, 115, 101, 114, 73, 100>> \o <<32, 73, 68>> \o email)

\* C16: the User that User::new returns has the identity of the e-mail given,
\* which every other input with that e-mail gets at every instant, the names
\* given, and the instant of the call as created_at and as updated_at.
C16_FreshUser ==
    user # None =>
        /\ made # None
        /\ LET a == made[1].arg
               u == user[1]
           IN  /\ u.id = [email |-> a.email]
               /\ User_id(u) = IdentityOf(a.email)
               /\ User_first_name(u) = a.first_name
               /\ User_last_name(u) = a.last_name
               /\ User_created_at(u) = made[1].at
               /\ User_updated_at(u) = made[1].at
               /\ \A b \in NewUserAttrs, t \in Times :
                     b.email = a.email => User_id(User_new(b, t)) = User_id(u)

\* C16 witness: a User created after the first instant, with a last name and
\* an e-mail that is not empty.
C16_Witness ==
    /\ user # None
    /\ made # None
    /\ made[1].at > 0
    /\ made[1].arg.last_name # None
    /\ made[1].arg.email # <<>>

\* C20: every User the process holds, and every User an accessor was called
\* on, stores its e-mail and no identity value; id() and to_attributes().id
\* are the identity of that e-mail, and a call leaves the User as it was.
C20_IdentityInvariant ==
    /\ \A u \in LiveUsers :
          /\ u.id = [email |-> UserId_email(u.id)]
          /\ User_id(u) = IdentityOf(UserId_email(u.id))
          /\ to_attributes(u).id = IdentityOf(UserId_email(u.id))
    /\ got # None =>
          /\ got[1].self \in LiveUsers
          /\ got[1].fn = "id" => got[1].ret = IdentityOf(got[1].self.id.email)
          /\ got[1].fn = "to_attributes" =>
                (/\ got[1].ret.id = IdentityOf(got[1].self.id.email)
                 /\ got[1].ret.email = got[1].self.id.email)

\* C20 witness: to_attributes has been called on a User that was loaded from
\* a record from outside, at a later instant than the record's.
C20_Witness ==
    /\ got # None
    /\ got[1].fn = "to_attributes"
    /\ user = None
    /\ last # None
    /\ last[1].op = "User::load"
    /\ got[1].self = last[1].ret.val[1]
    /\ got[1].self.updated_at < now

\* C21: the outcome of User::load depends on the e-mail and the id of the
\* record alone: every record with the same e-mail and id and any other
\* first_name, last_name, created_at and updated_at is accepted if this one
\* was, and refused with the same IdMismatch if this one was.
C21_LoadByEmailAndId ==
    (last # None /\ last[1].op = "User::load") =>
        \A fn \in Names, ln \in OptNames, c \in Times, u \in Times :
            LET other == [last[1].arg EXCEPT !.first_name = fn, !.last_name = ln,
                                             !.created_at = c, !.updated_at = u]
            IN  /\ User_load(other).ok = last[1].ret.ok
                /\ User_load(other).err = last[1].ret.err

\* C21 witness: User::load has accepted a record whose updated_at lies
\* before its created_at.
C21_Witness ==
    /\ last # None
    /\ last[1].op = "User::load"
    /\ last[1].ret.ok
    /\ last[1].arg.updated_at < last[1].arg.created_at
    /\ last[1].arg.last_name # None

\* ------------------------------------------------------------------ claims on the repository

\* C18: get returns a User only for a fetched row whose id is the identity of
\* its e-mail, and that User has this e-mail and identity; a fetched row whose
\* id is another value gives ApplicationError::Domain with the IdMismatch of
\* UserId; a query that failed gives ApplicationError::Internal.
C18_GetChecksIdentity ==
    (res # None /\ res[1].op = "get") =>
        LET fetched == res[1].exec
            ret == res[1].ret
        IN  /\ ret.ok =>
                  /\ fetched.ok
                  /\ fetched.val[1].id = IdentityOf(fetched.val[1].email)
                  /\ ret.val[1].id = [email |-> fetched.val[1].email]
                  /\ User_id(ret.val[1]) = fetched.val[1].id
            /\ (fetched.ok /\ fetched.val[1].id # IdentityOf(fetched.val[1].email)) =>
                  /\ ~ret.ok
                  /\ ret.val = None
                  /\ ret.err[1].kind = "Domain"
                  /\ ret.err[1].source.kind = "IdMismatch"
                  /\ ret.err[1].source.model = "UserId"
            /\ ~fetched.ok =>
                  /\ ~ret.ok
                  /\ ret.val = None
                  /\ ret.err[1].kind = "Internal"

\* C18 witness: get has fetched the row of a user that create_user wrote and
\* whose id another writer changed, and has answered with a Domain error.
C18_Witness ==
    /\ res # None
    /\ res[1].op = "get"
    /\ res[1].exec.ok
    /\ res[1].exec.val[1].email # <<>>
    /\ res[1].exec.val[1].id # IdentityOf(res[1].exec.val[1].email)
    /\ res[1].arg = res[1].exec.val[1].id
    /\ ~res[1].ret.ok

\* C19: create_user returns Ok with the user it built exactly when the
\* insert's statement succeeded, the row of that user then being written; when
\* the statement failed it returns no user and the error of the insert:
\* EntityAlreadyExists for "User" on a unique violation, Internal otherwise.
C19_CreateAfterInsert ==
    (res # None /\ res[1].op = "create_user") =>
        LET exec == res[1].exec
            ret == res[1].ret
        IN  /\ ret.ok <=> exec.ok
            /\ ret.ok =>
                  /\ ret.val[1] = User_new(res[1].arg, res[1].at)
                  /\ ret.err = None
                  /\ res[1].wrote = Some(UserRow_from(ret.val[1]))
            /\ ~exec.ok =>
                  /\ ret.val = None
                  /\ res[1].wrote = None
                  /\ exec.err[1] = "UniqueViolation" =>
                        (/\ ret.err[1].kind = "EntityAlreadyExists"
                         /\ ret.err[1].entity = "User")
                  /\ exec.err[1] # "UniqueViolation" => ret.err[1].kind = "Internal"

\* C19 witness: create_user has failed on a unique violation, the e-mail
\* being taken by a row of the table.
C19_Witness ==
    /\ res # None
    /\ res[1].op = "create_user"
    /\ ~res[1].exec.ok
    /\ res[1].exec.err[1] = "UniqueViolation"
    /\ \E t \in table : t.email = res[1].arg.email
    /\ ~res[1].ret.ok

\* ------------------------------------------------------------------ claims on helper shapes

\* The policy an attribute states: Include (no attribute), Skip, Retype, or
\* Conflict (skip together with a type).
Policy(ann) ==
    CASE ann = None -> "Include"
      [] ann = Some([skip |-> TRUE, type |-> None]) -> "Skip"
      [] ann # None /\ ~ann[1].skip /\ ann[1].type # None -> "Retype"
      [] OTHER -> "Conflict"

Entries(shape) == {shape[i] : i \in DOMAIN shape}
EntryNames(shape) == {shape[i].name : i \in DOMAIN shape}

\* The entries that the fields must give a shape under the attributes anns.
Selected(fields, anns) ==
    {[name |-> fields[i].name, type |-> fields[i].type] :
        i \in {j \in DOMAIN fields : Policy(anns[j]) = "Include"}}
    \cup {[name |-> fields[i].name, type |-> anns[i][1].type[1]] :
        i \in {j \in DOMAIN fields : Policy(anns[j]) = "Retype"}}

\* A shape holds the helper's own fields and the selected entries, once each,
\* and no field that is skipped.
ShapeIsExactly(shape, own, fields, anns) ==
    /\ Entries(shape) = Entries(own) \cup Selected(fields, anns)
    /\ Cardinality(Entries(shape)) = Len(shape)
    /\ \A i \in DOMAIN fields :
          Policy(anns[i]) = "Skip" => fields[i].name \notin EntryNames(shape)

NewAnns == [i \in DOMAIN schema[1].fields |-> schema[1].fields[i].new]
HydrateAnns == [i \in DOMAIN schema[1].fields |-> schema[1].fields[i].hydrate]

\* The expansion compiled and emitted the constructor shape, the hydration shape.
NewShapeEmitted == gpc = "done" /\ newH.st = "done"
HydrateShapeEmitted == gpc = "done" /\ hydH.st = "done"

\* C8: with both shapes generated, a field is in the constructor shape exactly
\* when its constructor policy is not Skip and in the hydration shape exactly
\* when its hydration policy is not Skip: a construct-skip, hydrate-include
\* field is absent from the first and present in the second, and the inverse.
C8_PolicyIndependence ==
    (NewShapeEmitted /\ HydrateShapeEmitted) =>
        \A i \in DOMAIN schema[1].fields :
            LET f == schema[1].fields[i]
                own == [name |-> f.name, type |-> f.type]
            IN  /\ f.name \in EntryNames(newH.processed) <=> Policy(f.new) # "Skip"
                /\ f.name \in EntryNames(hydH.processed) <=> Policy(f.hydrate) # "Skip"
                /\ (Policy(f.new) = "Skip" /\ Policy(f.hydrate) = "Include") =>
                        (/\ f.name \notin EntryNames(newH.processed)
                         /\ own \in Entries(hydH.processed))
                /\ (Policy(f.new) = "Include" /\ Policy(f.hydrate) = "Skip") =>
                        (/\ own \in Entries(newH.processed)
                         /\ f.name \notin EntryNames(hydH.processed))

\* C8 witness: both shapes of a model whose first field is construct-skip and
\* hydrate-include and whose second is construct-include and hydrate-skip.
C8_Witness ==
    /\ NewShapeEmitted
    /\ HydrateShapeEmitted
    /\ Len(schema[1].fields) = 2
    /\ Policy(schema[1].fields[1].new) = "Skip"
    /\ Policy(schema[1].fields[1].hydrate) = "Include"
    /\ Policy(schema[1].fields[2].new) = "Include"
    /\ Policy(schema[1].fields[2].hydrate) = "Skip"

\* C9: the constructor shape holds exactly the fields of the constructor
\* companion and the entity fields whose constructor policy is Include (own
\* type) or Retype (that type); no Skip field and nothing else.
C9_NewShape ==
    NewShapeEmitted =>
        ShapeIsExactly(newH.processed, schema[1].helpers[1].fields, schema[1].fields, NewAnns)

\* C9 witness: the constructor shape of a companion with a field of its own,
\* for an entity with a retyped and a skipped field.
C9_Witness ==
    /\ NewShapeEmitted
    /\ schema[1].helpers[1].fields # <<>>
    /\ Len(schema[1].fields) = 2
    /\ Policy(schema[1].fields[1].new) = "Retype"
    /\ Policy(schema[1].fields[2].new) = "Skip"

\* C10: the hydration shape holds exactly the fields of the hydration companion
\* and the entity fields whose hydration policy is Include (own type) or Retype
\* (that type), whatever their constructor policy; no Skip field, nothing else.
C10_HydrateShape ==
    HydrateShapeEmitted =>
        ShapeIsExactly(hydH.processed, schema[1].helpers[2].fields, schema[1].fields, HydrateAnns)

\* C10 witness: the hydration shape of a companion with a field of its own, for
\* an entity whose first field is retyped for hydration and skipped for
\* construction, and whose second is skipped for hydration.
C10_Witness ==
    /\ HydrateShapeEmitted
    /\ schema[1].helpers[2].fields # <<>>
    /\ Len(schema[1].fields) = 2
    /\ Policy(schema[1].fields[1].hydrate) = "Retype"
    /\ Policy(schema[1].fields[1].new) = "Skip"
    /\ Policy(schema[1].fields[2].hydrate) = "Skip"

\* C13: options of one policy are mutually exclusive: an entity with a field
\* that declares skip together with type(T) in #[new(..)] or in #[hydrate(..)]
\* is rejected, never compiled.
C13_ExclusiveOptions ==
    gpc = "done" =>
        \A i \in DOMAIN schema[1].fields :
            /\ Policy(schema[1].fields[i].new) # "Conflict"
            /\ Policy(schema[1].fields[i].hydrate) # "Conflict"

\* C14: no partial generation: an expansion that compiles has emitted the
\* entity and a shape for every helper struct that was declared, of which there
\* are at most two; one that does not compile emits nothing.
C14_NoPartialGeneration ==
    /\ gpc = "done" =>
          /\ entity # None
          /\ Len(schema[1].helpers) <= 2
          /\ Len(schema[1].helpers) >= 1 => newH.st = "done"
          /\ Len(schema[1].helpers) >= 2 => hydH.st = "done"
    /\ gpc = "error" => "error" \in {newH.st, hydH.st}

Mode(ann) ==
    CASE ann = None -> "Direct"
      [] ann = Some([NoOpts EXCEPT !.skip = "bare"]) -> "Skip"
      [] ann = Some([NoOpts EXCEPT !.into = Some("u128")]) -> "Into"
      [] ann = Some([NoOpts EXCEPT !.ref_into = Some("Uuid")]) -> "RefInto"
      [] ann = Some([NoOpts EXCEPT !.as_ref = Some("&str")]) -> "AsRef"
      [] ann = Some([NoOpts EXCEPT !.copy = "bare"]) -> "Copy"
      [] OTHER -> "Invalid"

\* The getters generated under the name of a field.
GettersOf(name) == {k \in DOMAIN getH.getters : getH.getters[k].name = name}

C12_GetterTotal ==
    getS # None => getH.st # "error"

\* ------------------------------------------------------------------ claims on the pool

\* C22: POOL is initialised at most once: every call that succeeds returns
\* the one pool that the one successful initialisation created, whatever its
\* own connection string; a call whose initialisation fails returns an
\* Internal error and leaves the cell empty, the semaphore open and the permit
\* free for a later call.
C22_PoolOnce ==
    /\ Cardinality(inits) <= 1
    /\ returned \subseteq inits
    /\ POOL = None <=> inits = {}
    /\ POOL # None => (inits = {POOL[1]} /\ sem.closed)
    /\ POOL = None => ~sem.closed
    /\ sem.permit # 0 => task[sem.permit].pc = "init"
    /\ Cardinality({t \in Tasks : task[t].pc = "init"}) <= 1
    /\ \A t \in Tasks :
          task[t].pc = "done" =>
              LET ret == task[t].ret[1]
              IN  /\ ret.ok => (POOL # None /\ ret.val[1] = POOL[1])
                  /\ ~ret.ok =>
                        /\ ret.err[1].kind = "Internal"
                        /\ ret.err[1].message = "Failed to initialize a DB pool"
                        /\ ~connect_lazy(task[t].conn, 0).ok
                        /\ sem.permit # t

\* C22 witness: after an initialisation that failed, a later one has created
\* the pool, and a call with another connection string has returned that pool
\* while a call that failed has returned its error.
C22_Witness ==
    /\ failed
    /\ POOL # None
    /\ \E t, t2 \in Tasks :
          /\ task[t].pc = "done"
          /\ task[t].ret[1].ok
          /\ connect_lazy(task[t].conn, 0).ok
          /\ task[t].ret[1].val[1].conn # task[t].conn
          /\ task[t2].pc = "done"
          /\ task[t2].ret[1].ok
          /\ task[t2].ret[1].val[1].conn = task[t2].conn

====
